---- MODULE Spec2Model ----
(***************************************************************************)
(* A model of batch_scrape.py: the CheeseParser tokenizer callbacks, the   *)
(* extract_data inference cascade, fetch_url's retry loop, scrape_cheese   *)
(* and main's batch loop.                                                  *)
(*                                                                         *)
(* Text is kept as TLA+ strings and processed character by character, so   *)
(* the regular expressions and the str methods of the source are computed  *)
(* rather than assumed.  The bullet U+2022 of the source's character       *)
(* classes is written "*" here (module text is ASCII).                     *)
(***************************************************************************)
EXTENDS Integers, Sequences, FiniteSets, TLC

VARIABLES
    parser,     \* the CheeseParser object under test (SpecParser, SpecExtract)
    events,     \* history: the tokenizer events fed to `parser` so far
    outcome,    \* SpecExtract: what extract_data did ("" before the call)
    urls,       \* main: the address list
    idx,        \* main: the loop variable i (1-based), 0 before the loop
    pc,         \* main: the position of the single thread of control
    cheeses,    \* main: the aggregation list
    attempt,    \* fetch_url: the loop variable `attempt`
    tries,      \* history: the attempts and sleeps of the current fetch_url call
    html,       \* scrape_cheese: the value fetch_url returned (NoContent for None)
    log         \* history: the fetches, results and delays of the batch, in order

vars == <<parser, events, outcome, urls, idx, pc, cheeses, attempt, tries, html, log>>

parserVars == <<parser, events, outcome>>
batchVars  == <<urls, idx, pc, cheeses, attempt, tries, html, log>>

-----------------------------------------------------------------------------
(* Characters and the str methods the source uses.                         *)

Ch(s, i) == SubSeq(s, i, i)

Bullet == "*"

LowerAlpha == "abcdefghijklmnopqrstuvwxyz"
UpperAlpha == "ABCDEFGHIJKLMNOPQRSTUVWXYZ"
DigitChars == "0123456789"

CharsOf(s) == {Ch(s, i) : i \in 1..Len(s)}

Whitespace == {" ", "\t", "\n", "\r"}

LowerSet == CharsOf(LowerAlpha)
UpperSet == CharsOf(UpperAlpha)
DigitSet == CharsOf(DigitChars)

IsLower(c) == c \in LowerSet
IsUpper(c) == c \in UpperSet
IsDigit(c) == c \in DigitSet
IsAlpha(c) == IsLower(c) \/ IsUpper(c)

LowerCh(c) ==
    IF IsUpper(c)
    THEN Ch(LowerAlpha, CHOOSE i \in 1..26 : Ch(UpperAlpha, i) = c)
    ELSE c

UpperCh(c) ==
    IF IsLower(c)
    THEN Ch(UpperAlpha, CHOOSE i \in 1..26 : Ch(LowerAlpha, i) = c)
    ELSE c

\* The recursions over a text halve it, so that their depth stays
\* logarithmic in its length.
Mid(lo, hi) == (lo + hi) \div 2

\* str.lower(), on s[lo..hi]
RECURSIVE LowerRange(_, _, _)
LowerRange(s, lo, hi) ==
    IF lo > hi THEN ""
    ELSE IF lo = hi THEN LowerCh(Ch(s, lo))
    ELSE LowerRange(s, lo, Mid(lo, hi)) \o LowerRange(s, Mid(lo, hi) + 1, hi)

Lower(s) == LowerRange(s, 1, Len(s))

\* str.title(): a cased character is upper-cased after an uncased one and
\* lower-cased after a cased one.
TitleCh(s, i) ==
    LET c == Ch(s, i)
    IN  IF ~IsAlpha(c) THEN c
        ELSE IF i > 1 /\ IsAlpha(Ch(s, i - 1)) THEN LowerCh(c) ELSE UpperCh(c)

RECURSIVE TitleRange(_, _, _)
TitleRange(s, lo, hi) ==
    IF lo > hi THEN ""
    ELSE IF lo = hi THEN TitleCh(s, lo)
    ELSE TitleRange(s, lo, Mid(lo, hi)) \o TitleRange(s, Mid(lo, hi) + 1, hi)

Title(s) == TitleRange(s, 1, Len(s))

StartsWith(s, p) == Len(p) <= Len(s) /\ SubSeq(s, 1, Len(p)) = p

\* s.find(sub): the least index where sub occurs, 0 when it does not.
Least(S) == CHOOSE x \in S : \A y \in S : x <= y
Greatest(S) == CHOOSE x \in S : \A y \in S : y <= x
LeastOr(S, none) == IF S = {} THEN none ELSE Least(S)

Find(s, sub) ==
    LeastOr({i \in 1..(Len(s) - Len(sub) + 1) : SubSeq(s, i, i + Len(sub) - 1) = sub}, 0)

\* `sub in s`
Contains(s, sub) == Find(s, sub) # 0

\* str.strip()
StripTo(s, keep) == IF keep = {} THEN "" ELSE SubSeq(s, Least(keep), Greatest(keep))

Strip(s) == StripTo(s, {i \in 1..Len(s) : Ch(s, i) \notin Whitespace})

\* str.split() with no argument: the maximal runs of non-whitespace.
Nth(S, n) == CHOOSE x \in S : Cardinality({y \in S : y <= x}) = n

\* the words of s that start at the positions `first` and end at `last`
Words(s, first, last) ==
    IF first = {} THEN <<>>
    ELSE [n \in 1..Cardinality(first) |-> SubSeq(s, Nth(first, n), Nth(last, n))]

Split(s) ==
    Words(s,
          {i \in 1..Len(s) :
              Ch(s, i) \notin Whitespace /\ (i = 1 \/ Ch(s, i - 1) \in Whitespace)},
          {i \in 1..Len(s) :
              Ch(s, i) \notin Whitespace /\ (i = Len(s) \/ Ch(s, i + 1) \in Whitespace)})

\* sep.join(parts[lo..hi])
RECURSIVE JoinRange(_, _, _, _)
JoinRange(parts, sep, lo, hi) ==
    IF lo > hi THEN ""
    ELSE IF lo = hi THEN parts[lo]
    ELSE JoinRange(parts, sep, lo, Mid(lo, hi)) \o sep
         \o JoinRange(parts, sep, Mid(lo, hi) + 1, hi)

Join(parts, sep) == JoinRange(parts, sep, 1, Len(parts))

\* s.split(sep)[0]
Before(s, at) == IF at = 0 THEN s ELSE SubSeq(s, 1, at - 1)

BeforeFirst(s, sep) == Before(s, Find(s, sep))

-----------------------------------------------------------------------------
(* Regular expressions, matched the way a backtracking matcher does: each   *)
(* node yields its matches at a position as a list in the order the matcher *)
(* tries them, so the first element is the match re.search reports.         *)
(*   [k |-> "lit", s]   the characters of s                                 *)
(*   [k |-> "cls", c]   one character of class c                            *)
(*   [k |-> "seq", rs]  concatenation      [k |-> "alt", rs]  alternation   *)
(*   [k |-> "star", r]  greedy r*          [k |-> "grp", r]   group 1       *)
(*   [k |-> "nlb", r, w] negative lookbehind (?<!r) of width w              *)

Lit(s)    == [k |-> "lit", s |-> s]
Cls(c)    == [k |-> "cls", c |-> c]
Cat(rs)   == [k |-> "seq", rs |-> rs]
Alt(rs)   == [k |-> "alt", rs |-> rs]
Star(r)   == [k |-> "star", r |-> r]
Plus(r)   == Cat(<<r, Star(r)>>)
Opt(r)    == Alt(<<r, Cat(<<>>)>>)
Grp(r)    == [k |-> "grp", r |-> r]
NotBehind(r, w) == [k |-> "nlb", r |-> r, w |-> w]

\* \s, \w, \d and [^\n<bullet>]
InClass(c, ch) ==
    CASE c = "s" -> ch \in Whitespace
      [] c = "w" -> IsAlpha(ch) \/ IsDigit(ch) \/ ch = "_"
      [] c = "d" -> IsDigit(ch)
      [] c = "v" -> ch # "\n" /\ ch # Bullet

NoGroup == <<0, 0>>

WithGroup(g, res) ==
    [n \in DOMAIN res |->
        [e |-> res[n].e, g |-> IF g # NoGroup THEN g ELSE res[n].g]]

\* The positions after i that a greedy run of class-c characters starting at
\* i can end at, longest first: the matches of c* at i.
RunTo(stop, i) == [n \in 1..(stop - i + 1) |-> [e |-> stop - n + 1, g |-> NoGroup]]

ClassRun(c, t, i) ==
    RunTo(Least({j \in i..(Len(t) + 1) : j = Len(t) + 1 \/ ~InClass(c, Ch(t, j))}), i)

\* the matches `res` that began at i, each made group 1
Grouped(res, i) == [n \in DOMAIN res |-> [e |-> res[n].e, g |-> <<i, res[n].e>>]]

\* some match of `res` ends just before position i
EndsAt(res, i) == \E n \in DOMAIN res : res[n].e = i

RECURSIVE Match(_, _, _), MatchSeq(_, _, _), BindAll(_, _, _), Bind(_, _, _, _, _),
          MatchAlt(_, _, _), BindStar(_, _, _, _)

\* The matches of `re` in t that start at position i: a list of
\* [e |-> the position after the match, g |-> group 1 as <<first, after>>].
Match(re, t, i) ==
    CASE re.k = "lit" ->
            IF i + Len(re.s) - 1 <= Len(t) /\ SubSeq(t, i, i + Len(re.s) - 1) = re.s
            THEN <<[e |-> i + Len(re.s), g |-> NoGroup]>> ELSE <<>>
      [] re.k = "cls" ->
            IF i <= Len(t) /\ InClass(re.c, Ch(t, i))
            THEN <<[e |-> i + 1, g |-> NoGroup]>> ELSE <<>>
      [] re.k = "seq" -> MatchSeq(re.rs, t, i)
      [] re.k = "alt" -> MatchAlt(re.rs, t, i)
      [] re.k = "star" /\ re.r.k = "cls" -> ClassRun(re.r.c, t, i)
      [] re.k = "star" /\ re.r.k # "cls" ->
            BindStar(Match(re.r, t, i), re, t, i) \o <<[e |-> i, g |-> NoGroup]>>
      [] re.k = "grp" ->
            Grouped(Match(re.r, t, i), i)
      [] re.k = "nlb" ->
            IF i - re.w >= 1 /\ EndsAt(Match(re.r, t, i - re.w), i)
            THEN <<>> ELSE <<[e |-> i, g |-> NoGroup]>>

MatchSeq(rs, t, i) ==
    IF rs = <<>> THEN <<[e |-> i, g |-> NoGroup]>>
    ELSE BindAll(Match(Head(rs), t, i), Tail(rs), t)

BindAll(res, rs, t) == Bind(res, 1, Len(res), rs, t)

\* the matches of the rest of a concatenation after each of res[lo..hi]
Bind(res, lo, hi, rs, t) ==
    IF lo > hi THEN <<>>
    ELSE IF lo = hi THEN WithGroup(res[lo].g, MatchSeq(rs, t, res[lo].e))
    ELSE Bind(res, lo, Mid(lo, hi), rs, t) \o Bind(res, Mid(lo, hi) + 1, hi, rs, t)

MatchAlt(rs, t, i) ==
    IF rs = <<>> THEN <<>> ELSE Match(Head(rs), t, i) \o MatchAlt(Tail(rs), t, i)

BindStar(res, re, t, i) ==
    IF res = <<>> THEN <<>>
    ELSE (IF Head(res).e > i THEN Match(re, t, Head(res).e) ELSE <<>>)
         \o BindStar(Tail(res), re, t, i)

NoMatch == [found |-> FALSE, start |-> 0, end |-> 0, group |-> ""]

\* re.search(re, s), with re.IGNORECASE when ic: the first match at the
\* least starting position.  Under ic the pattern's literals are lower case
\* and are compared with the lower-cased text; group 1 is cut from s itself.
Found(s, i, m) ==
    [found |-> TRUE, start |-> i, end |-> m.e,
     group |-> IF m.g = NoGroup THEN "" ELSE SubSeq(s, m.g[1], m.g[2] - 1)]

FirstMatch(re, s, t, i) == IF i = 0 THEN NoMatch ELSE Found(s, i, Match(re, t, i)[1])

SearchIn(re, s, t) ==
    FirstMatch(re, s, t, LeastOr({i \in 1..(Len(t) + 1) : Len(Match(re, t, i)) > 0}, 0))

Search(re, s, ic) == SearchIn(re, s, IF ic THEN Lower(s) ELSE s)

-----------------------------------------------------------------------------
(* CheeseParser: construction and the three tokenizer callbacks.           *)
(* An event is [type |-> "start", tag, attrs], [type |-> "end", tag] or    *)
(* [type |-> "data", data]; attrs is the list of <<name, value>> pairs the *)
(* tokenizer hands to handle_starttag.                                     *)

SiteOrigin == "https://www.cheese.com"

NewParser(url) ==
    [data |-> [name |-> "", country |-> "", milk |-> "", texture |-> "",
               color |-> "", aged |-> "Unknown", rind |-> "Natural",
               flavor |-> "Mild", image |-> "", description |-> "", url |-> url],
     in_h1 |-> FALSE,
     in_description |-> FALSE,
     description_paragraphs |-> <<>>,
     text_content |-> <<>>]

\* dict(attrs).get(name, default): the last pair named `name` wins.
AttrGet(attrs, name, default) ==
    LET at == {n \in DOMAIN attrs : attrs[n][1] = name}
    IN  IF at = {} THEN default
        ELSE attrs[CHOOSE n \in at : \A m \in at : m <= n][2]

handle_starttag(p, tag, attrs) ==
    LET src == AttrGet(attrs, "src", "")
        p1 == IF tag = "h1" THEN [p EXCEPT !.in_h1 = TRUE] ELSE p
        p2 == IF tag = "img" /\ p1.data.image = "" /\ Contains(src, "/media/img/cheese")
              THEN [p1 EXCEPT !.data.image =
                        IF StartsWith(src, "/") THEN SiteOrigin \o src ELSE src]
              ELSE p1
        p3 == IF tag = "div" /\ AttrGet(attrs, "id", "<None>") = "collapse-description"
              THEN [p2 EXCEPT !.in_description = TRUE] ELSE p2
    IN  IF tag = "p" /\ p3.in_description
        THEN [p3 EXCEPT !.description_paragraphs = Append(@, "")]
        ELSE p3

handle_endtag(p, tag) ==
    LET p1 == IF tag = "h1" THEN [p EXCEPT !.in_h1 = FALSE] ELSE p
    IN  IF tag = "div" THEN [p1 EXCEPT !.in_description = FALSE] ELSE p1

\* line 77: the name assignment of handle_data
SetName(p, data) == [p EXCEPT !.data.name = Strip(data)]

handle_data(p, data) ==
    LET p1 == IF p.in_h1 THEN SetName(p, data) ELSE p
        n  == Len(p1.description_paragraphs)
        p2 == IF p1.in_description /\ n > 0
              THEN [p1 EXCEPT !.description_paragraphs[n] = @ \o data]
              ELSE p1
    IN  [p2 EXCEPT !.text_content = Append(@, data)]

HandleEvent(p, ev) ==
    CASE ev.type = "start" -> handle_starttag(p, ev.tag, ev.attrs)
      [] ev.type = "end"   -> handle_endtag(p, ev.tag)
      [] ev.type = "data"  -> handle_data(p, ev.data)

\* parser.feed(html), html given as the events the tokenizer emits for it
RECURSIVE Feed(_, _)
Feed(p, evs) == IF evs = <<>> THEN p ELSE Feed(HandleEvent(p, Head(evs)), Tail(evs))

StartEv(tag, attrs) == [type |-> "start", tag |-> tag, attrs |-> attrs]
EndEv(tag)          == [type |-> "end", tag |-> tag]
DataEv(data)        == [type |-> "data", data |-> data]

-----------------------------------------------------------------------------
(* CheeseParser._clean_text and CheeseParser.extract_data.                 *)

Ws  == Cls("s")
Wrd == Cls("w")

\* r'Type:|Texture:|Rind:|Flavou?r:' (case-sensitive)
LabelRe ==
    Alt(<<Lit("Type:"), Lit("Texture:"), Lit("Rind:"),
          Cat(<<Lit("Flavo"), Opt(Lit("u")), Lit("r:")>>)>>)

\* re.split(label, text)[0]
BeforeMatch(s, m) == IF m.found THEN SubSeq(s, 1, m.start - 1) ELSE s

\* lines 205-206, on the text whose whitespace line 204 has joined
CutAtLabel(joined) == Strip(BeforeMatch(joined, Search(LabelRe, joined, FALSE)))

_clean_text(text) == CutAtLabel(Join(Split(text), " "))

\* r'<label>\s*([^\n<bullet>]+)', the label given in lower case
LabelValueRe(label) == Cat(<<label, Star(Ws), Grp(Plus(Cls("v")))>>)

CountryRe == LabelValueRe(Lit("country of origin:"))
TextureRe == LabelValueRe(Lit("texture:"))
TypeRe    == LabelValueRe(Lit("type:"))
ColorRe   == LabelValueRe(Cat(<<Lit("colo"), Opt(Lit("u")), Lit("r:")>>))
FlavorRe  == LabelValueRe(Cat(<<Lit("flavo"), Opt(Lit("u")), Lit("r:")>>))
RindRe    == Cat(<<Lit("rind:"), Star(Ws), Grp(Plus(Wrd))>>)

\* (?:pasteurized\s+|raw\s+|unpasteurized\s+|organic\s+|fresh\s+)*
MilkModifiers ==
    Star(Alt(<<Cat(<<Lit("pasteurized"), Plus(Ws)>>),
               Cat(<<Lit("raw"), Plus(Ws)>>),
               Cat(<<Lit("unpasteurized"), Plus(Ws)>>),
               Cat(<<Lit("organic"), Plus(Ws)>>),
               Cat(<<Lit("fresh"), Plus(Ws)>>)>>))

milk_patterns ==
    << Cat(<<Lit("made from"), Plus(Ws), MilkModifiers, Grp(Plus(Wrd)), Star(Ws),
             Opt(Alt(<<Lit("'s"), Lit("'s"), Lit("s")>>)), Plus(Ws), Lit("milk")>>),
       Cat(<<Alt(<<Lit("from"), Lit("using"), Lit("with")>>), Plus(Ws), MilkModifiers,
             Grp(Plus(Wrd)), Star(Ws),
             Opt(Alt(<<Lit("'s"), Lit("'s"), Lit("s")>>)), Plus(Ws), Lit("milk")>>),
       Cat(<<NotBehind(Cat(<<Lit("by"), Ws>>), 3), Grp(Plus(Wrd)), Star(Ws),
             Alt(<<Lit("'s"), Lit("'s")>>), Plus(Ws), Lit("milk")>>) >>

MilkStopWords == {"by", "the", "a", "an", "this", "that", "made", "from", "with"}

\* r'aged?\s+for\s+\d+' and r'fresh|unaged'
AgedForRe ==
    Cat(<<Lit("age"), Opt(Lit("d")), Plus(Ws), Lit("for"), Plus(Ws), Plus(Cls("d"))>>)
FreshRe == Alt(<<Lit("fresh"), Lit("unaged")>>)

\* lines 88-90
SetCountry(data, m) ==
    IF m.found THEN [data EXCEPT !.country = _clean_text(m.group)] ELSE data

CountryStep(data, full_text) == SetCountry(data, Search(CountryRe, full_text, TRUE))

\* lines 108-117
CanonicalMilk(milk_type) ==
    IF Contains(milk_type, "cow") THEN "Cow"
    ELSE IF Contains(milk_type, "goat") THEN "Goat"
    ELSE IF Contains(milk_type, "sheep") \/ Contains(milk_type, "ewe") THEN "Sheep"
    ELSE IF Contains(milk_type, "buffalo") \/ Contains(milk_type, "water") THEN "Buffalo"
    ELSE Title(milk_type)

\* lines 101-118: the loop over milk_patterns, from pattern n on
RECURSIVE MilkFrom(_, _, _), MilkTry(_, _, _, _)
MilkFrom(data, full_text, n) ==
    IF n > Len(milk_patterns) THEN data
    ELSE MilkTry(data, full_text, n, Search(milk_patterns[n], full_text, TRUE))

\* lines 103-118: the body of the loop, m the match of pattern n
MilkTry(data, full_text, n, m) ==
    IF ~m.found \/ Lower(m.group) \in MilkStopWords
    THEN MilkFrom(data, full_text, n + 1)
    ELSE [data EXCEPT !.milk = CanonicalMilk(Lower(m.group))]

MilkStep(data, full_text) == MilkFrom(data, full_text, 1)

\* lines 124-133: the substring priority of the 'Texture:' value; "" when no
\* keyword occurs (the else branch of line 134)
ClassifyTexture(texture_text) ==
    IF Contains(texture_text, "crumbly") THEN "Crumbly"
    ELSE IF Contains(texture_text, "firm") THEN "Firm"
    ELSE IF Contains(texture_text, "soft") THEN "Soft"
    ELSE IF Contains(texture_text, "hard") THEN "Hard"
    ELSE IF Contains(texture_text, "creamy") THEN "Creamy"
    ELSE ""

\* lines 121-135.  Line 135 indexes split()[0]: an IndexError when the
\* cleaned value has no word.
FirstWordTitle(data, words) ==
    IF words = <<>> THEN [raised |-> "IndexError", data |-> data]
    ELSE [raised |-> "", data |-> [data EXCEPT !.texture = Title(words[1])]]

\* lines 123-135, texture_text the lower-cased value
TextureFrom(data, texture_text) ==
    IF ClassifyTexture(texture_text) # ""
    THEN [raised |-> "", data |-> [data EXCEPT !.texture = ClassifyTexture(texture_text)]]
    ELSE FirstWordTitle(data, Split(_clean_text(texture_text)))

SetTexture(data, m) ==
    IF ~m.found THEN [raised |-> "", data |-> data]
    ELSE TextureFrom(data, Lower(m.group))

TextureStep(data, full_text) == SetTexture(data, Search(TextureRe, full_text, TRUE))

\* lines 141-148: the substring priority of the 'Type:' value; "" leaves
\* texture as it is
ClassifyTypeSemiFirst(type_text) ==
    IF Contains(type_text, "semi-hard") THEN "Semi-hard"
    ELSE IF Contains(type_text, "hard") THEN "Hard"
    ELSE IF Contains(type_text, "semi-soft") THEN "Semi-soft"
    ELSE IF Contains(type_text, "soft") THEN "Soft"
    ELSE ""

ClassifyType(type_text) ==
    IF Contains(type_text, "hard") THEN "Hard"
    ELSE IF Contains(type_text, "semi-hard") THEN "Semi-hard"
    ELSE IF Contains(type_text, "semi-soft") THEN "Semi-soft"
    ELSE IF Contains(type_text, "soft") THEN "Soft"
    ELSE ""

\* lines 137-148
SetType(data, m) ==
    IF data.texture = "" /\ m.found /\ ClassifyType(Lower(m.group)) # ""
    THEN [data EXCEPT !.texture = ClassifyType(Lower(m.group))] ELSE data

TypeStep(data, full_text) == SetType(data, Search(TypeRe, full_text, TRUE))

\* lines 151-158
SetColor(data, m, low) ==
    [data EXCEPT !.color =
        IF m.found THEN Title(_clean_text(m.group))
        ELSE IF Contains(low, "blue") /\ Contains(low, "vein") THEN "Blue-Veined"
        ELSE "Yellow"]

ColorStep(data, full_text) ==
    SetColor(data, Search(ColorRe, full_text, TRUE), Lower(full_text))

\* lines 161-167: the texture-derived value
AgedFor(texture_lower, aged) ==
    IF texture_lower \in {"hard", "semi-hard", "firm"} THEN "Yes"
    ELSE IF texture_lower \in {"soft", "creamy", "fresh"} THEN "No"
    ELSE aged

AgedFromTexture(data) == AgedFor(Lower(data.texture), data.aged)

\* lines 169-172: the two textual overrides, applied to the value `aged`;
\* line 171 assigns after line 169, so its 'No' is what remains
AgedOverridesSwapped(aged, full_text) ==
    IF Search(AgedForRe, full_text, TRUE).found THEN "Yes"
    ELSE IF Search(FreshRe, full_text, TRUE).found THEN "No"
    ELSE aged

AgedOverrides(aged, full_text) ==
    IF Search(FreshRe, full_text, TRUE).found THEN "No"
    ELSE IF Search(AgedForRe, full_text, TRUE).found THEN "Yes"
    ELSE aged

\* lines 161-172
AgedStep(data, full_text) ==
    [data EXCEPT !.aged = AgedOverrides(AgedFromTexture(data), full_text)]

\* lines 175-181
SetRind(data, m, low) ==
    IF m.found THEN [data EXCEPT !.rind = Title(_clean_text(m.group))]
    ELSE IF Contains(low, "bloomy") THEN [data EXCEPT !.rind = "Bloomy"]
    ELSE IF Contains(low, "washed") /\ Contains(low, "rind")
    THEN [data EXCEPT !.rind = "Washed"]
    ELSE data

RindStep(data, full_text) ==
    SetRind(data, Search(RindRe, full_text, TRUE), Lower(full_text))

\* lines 184-191
SetFlavor(data, m, low) ==
    IF m.found
    THEN [data EXCEPT !.flavor =
             Title(Strip(BeforeFirst(BeforeFirst(_clean_text(m.group), "and"), ",")))]
    ELSE IF Contains(low, "sharp") THEN [data EXCEPT !.flavor = "Sharp"]
    ELSE IF Contains(low, "strong") THEN [data EXCEPT !.flavor = "Strong"]
    ELSE data

FlavorStep(data, full_text) ==
    SetFlavor(data, Search(FlavorRe, full_text, TRUE), Lower(full_text))

DescMinLen == 50
DescMaxLen == 200

\* line 198: cleaned[:200] + '...' if len(cleaned) > 200 else cleaned
TruncateOffByOne(cleaned) ==
    IF Len(cleaned) >= DescMaxLen
    THEN SubSeq(cleaned, 1, DescMaxLen) \o "..." ELSE cleaned

Truncate(cleaned) ==
    IF Len(cleaned) > DescMaxLen
    THEN SubSeq(cleaned, 1, DescMaxLen) \o "..." ELSE cleaned

\* lines 194-199: the first paragraph whose cleaned text is longer than 50
RECURSIVE DescriptionFrom(_, _), DescriptionTry(_, _, _)
DescriptionFrom(data, paras) ==
    IF paras = <<>> THEN data
    ELSE DescriptionTry(data, paras, _clean_text(Head(paras)))

\* lines 196-199: the body of the loop, `cleaned` the head paragraph cleaned
DescriptionTry(data, paras, cleaned) ==
    IF Len(cleaned) > DescMinLen
    THEN [data EXCEPT !.description = Truncate(cleaned)]
    ELSE DescriptionFrom(data, Tail(paras))

\* extract_data: [raised |-> "" or the exception raised,
\*                data   |-> self.data when the call ends]
\* lines 137-201, after the texture step ended as tx
AfterTexture(p, full_text, tx) ==
    IF tx.raised # "" THEN tx
    ELSE [raised |-> "",
          data |-> DescriptionFrom(
                     FlavorStep(
                       RindStep(
                         AgedStep(
                           ColorStep(TypeStep(tx.data, full_text), full_text),
                           full_text),
                         full_text),
                       full_text),
                     p.description_paragraphs)]

\* lines 88-135, then the rest
Cascade(p, full_text) ==
    AfterTexture(p, full_text,
                 TextureStep(MilkStep(CountryStep(p.data, full_text), full_text),
                             full_text))

extract_data(p) == Cascade(p, Join(p.text_content, " "))

-----------------------------------------------------------------------------
(* SpecParser: a CheeseParser fed one tokenizer event at a time.           *)

MaxEvents == 5

PageUrl  == "https://www.cheese.com/brie/"
ImageSrc == "/media/img/cheese/brie.jpg"

StartChoices ==
    { StartEv("h1", <<>>),
      StartEv("div", <<>>),
      StartEv("div", << <<"id", "collapse-description">> >>),
      StartEv("p", <<>>),
      StartEv("img", << <<"src", ImageSrc>> >>) }

EndChoices == { EndEv("h1"), EndEv("div"), EndEv("p") }

DataChoices == { DataEv(" Brie "), DataEv("Mild") }

BatchIdle ==
    /\ urls = <<>> /\ idx = 0 /\ pc = "idle" /\ cheeses = <<>>
    /\ attempt = 0 /\ tries = <<>> /\ html = "" /\ log = <<>>

ParserInit ==
    /\ parser = NewParser(PageUrl)
    /\ events = <<>>
    /\ outcome = ""
    /\ BatchIdle

StartTag ==
    /\ Len(events) < MaxEvents
    /\ \E ev \in StartChoices :
          /\ parser' = handle_starttag(parser, ev.tag, ev.attrs)
          /\ events' = Append(events, ev)
    /\ UNCHANGED <<outcome, batchVars>>

EndTag ==
    /\ Len(events) < MaxEvents
    /\ \E ev \in EndChoices :
          /\ parser' = handle_endtag(parser, ev.tag)
          /\ events' = Append(events, ev)
    /\ UNCHANGED <<outcome, batchVars>>

Data ==
    /\ Len(events) < MaxEvents
    /\ \E ev \in DataChoices :
          /\ parser' = handle_data(parser, ev.data)
          /\ events' = Append(events, ev)
    /\ UNCHANGED <<outcome, batchVars>>

ParserNext == StartTag \/ EndTag \/ Data

SpecParser == ParserInit /\ [][ParserNext]_vars

\* The positions of `events` that lie inside an h1 element: the nearest h1
\* tag before them is a start tag.
InsideH1(n) ==
    LET h1 == {m \in 1..(n - 1) : events[m].type \in {"start", "end"} /\ events[m].tag = "h1"}
    IN  h1 # {} /\ events[CHOOSE m \in h1 : \A k \in h1 : k <= m].type = "start"

HeadingTexts == {n \in DOMAIN events : events[n].type = "data" /\ InsideH1(n)}

\* C1: the record's name is the stripped text of the FIRST text event inside
\* an h1 element ("" while there is none); later heading text leaves it alone.
C1_NameIsFirstHeadingText ==
    parser.data.name =
        IF HeadingTexts = {} THEN ""
        ELSE Strip(events[CHOOSE n \in HeadingTexts : \A m \in HeadingTexts : n <= m].data)

\* What the code does instead: the LAST text event inside an h1 names the record.
C1_NameIsLastHeadingText ==
    parser.data.name =
        IF HeadingTexts = {} THEN ""
        ELSE Strip(events[CHOOSE n \in HeadingTexts : \A m \in HeadingTexts : m <= n].data)

\* The paragraphs C7 describes, folded over the events: `depth` counts the
\* open div elements from the 'collapse-description' container inwards (0:
\* the container is closed), `open` says a p opened inside it is not yet closed.
RECURSIVE ParagraphsByStructure(_, _)
ParagraphsByStructure(st, evs) ==
    IF evs = <<>> THEN st.paras
    ELSE LET ev == Head(evs)
             st1 ==
               CASE ev.type = "start" /\ ev.tag = "div" ->
                        IF st.depth > 0 \/ AttrGet(ev.attrs, "id", "<None>") = "collapse-description"
                        THEN [st EXCEPT !.depth = @ + 1] ELSE st
                 [] ev.type = "end" /\ ev.tag = "div" ->
                        IF st.depth > 0
                        THEN [st EXCEPT !.depth = @ - 1,
                                        !.open = st.open /\ st.depth > 1]
                        ELSE st
                 [] ev.type = "start" /\ ev.tag = "p" ->
                        IF st.depth > 0
                        THEN [st EXCEPT !.paras = Append(@, ""), !.open = TRUE] ELSE st
                 [] ev.type = "end" /\ ev.tag = "p" -> [st EXCEPT !.open = FALSE]
                 [] ev.type = "data" ->
                        IF st.open
                        THEN [st EXCEPT !.paras[Len(st.paras)] = @ \o ev.data] ELSE st
                 [] OTHER -> st
         IN  ParagraphsByStructure(st1, Tail(evs))

\* C7: a text event is appended to an accumulator iff it lies between the
\* opening of a p inside the container and the close of that p; every p opened
\* while the container is open starts an accumulator.
C7_TextAppendedOnlyInsideParagraph ==
    parser.description_paragraphs =
        ParagraphsByStructure([depth |-> 0, open |-> FALSE, paras |-> <<>>], events)

-----------------------------------------------------------------------------
(* Documents, as the events the tokenizer emits for them.                  *)

RECURSIVE Repeat(_, _)
Repeat(s, n) ==
    IF n <= 0 THEN ""
    ELSE IF n = 1 THEN s
    ELSE Repeat(s, n \div 2) \o Repeat(s, n - n \div 2)

\* <tag>text</tag>
Element(tag, text) == <<StartEv(tag, <<>>), DataEv(text), EndEv(tag)>>

\* <li>fact</li> for each fact that is not ""
RECURSIVE Items(_)
Items(facts) ==
    IF facts = <<>> THEN <<>>
    ELSE (IF Head(facts) = "" THEN <<>> ELSE Element("li", Head(facts)))
         \o Items(Tail(facts))

\* <p>para</p> for each paragraph
RECURSIVE Paragraphs(_)
Paragraphs(paras) ==
    IF paras = <<>> THEN <<>>
    ELSE Element("p", Head(paras)) \o Paragraphs(Tail(paras))

\* <h1>title</h1> <ul>facts</ul>
FactPage(title, facts) ==
    Element("h1", title) \o <<StartEv("ul", <<>>)>> \o Items(facts) \o <<EndEv("ul")>>

\* <h1>title</h1> <div id="collapse-description">paragraphs</div>
DescPage(title, paras) ==
    Element("h1", title)
    \o <<StartEv("div", << <<"id", "collapse-description">> >>)>>
    \o Paragraphs(paras) \o <<EndEv("div")>>

-----------------------------------------------------------------------------
(* SpecExtract: extract_data applied to a parser that was fed a document.  *)

MaxExtra == 40

AgedFacts    == {"", "It is aged for 6 months", "We age for 3 weeks", "aged for months"}
FreshFacts   == {"", "A fresh taste", "unaged"}
TypeFacts    == {"", "Type: semi-hard, artisan", "Type: semi-soft, brined", "Type: soft"}
TextureFacts == {"", "Texture: semi-hard", "Texture: firm and supple", "Texture: creamy",
                 "Texture: supple", "Texture: "}

ParaLengths ==
    {DescMinLen, DescMinLen + 1, DescMaxLen - 1, DescMaxLen, DescMaxLen + 1,
     DescMaxLen + MaxExtra}

LongParas ==
    {Repeat("a", n) : n \in ParaLengths}
    \cup {"  " \o Repeat("ab \n", DescMinLen + 2), Repeat("c", DescMinLen + 10) \o " Texture: soft"}

ShortParas == {<<>>, <<"A short note.">>}

ExtractDocs ==
    {FactPage("Brie", <<a, f, ty, tx>>) :
        a \in AgedFacts, f \in FreshFacts, ty \in TypeFacts, tx \in TextureFacts}
    \cup {DescPage("Brie", pre \o <<para>>) : pre \in ShortParas, para \in LongParas}

ExtractInit ==
    /\ events \in ExtractDocs
    /\ parser = Feed(NewParser(PageUrl), events)
    /\ outcome = ""
    /\ BatchIdle

\* cheese_data = parser.extract_data(): it returns, or raises out of line 135
Extract ==
    /\ outcome = ""
    /\ \E r \in {extract_data(parser)} :
           /\ parser' = [parser EXCEPT !.data = r.data]
           /\ outcome' = IF r.raised = "" THEN "returned" ELSE r.raised
    /\ UNCHANGED <<events, batchVars>>

ExtractNext == Extract

SpecExtract == ExtractInit /\ [][ExtractNext]_vars

full_text == Join(parser.text_content, " ")

\* the cleaned text of the first collected paragraph longer than 50, "" if none
RECURSIVE FirstLongParagraph(_)
FirstLongParagraph(paras) ==
    IF paras = <<>> THEN ""
    ELSE IF Len(_clean_text(Head(paras))) > DescMinLen THEN _clean_text(Head(paras))
    ELSE FirstLongParagraph(Tail(paras))

\* C8 as stated: the description is at most 200 characters long.
C8_DescriptionAtMost200 ==
    outcome = "returned" => Len(parser.data.description) <= DescMaxLen

\* C8 as amended: the description is at most 203 characters long; a cleaned
\* paragraph longer than 200 is cut to its first 200 characters followed by
\* "...", a shorter one (exactly 200 included) is kept verbatim.
C8_DescriptionAtMost203 ==
    outcome = "returned" =>
        LET d == parser.data.description
            c == FirstLongParagraph(parser.description_paragraphs)
        IN  /\ Len(d) <= DescMaxLen + 3
            /\ Len(c) > DescMaxLen  => d = SubSeq(c, 1, DescMaxLen) \o "..."
            /\ Len(c) <= DescMaxLen => d = c

C8_Witness ==
    /\ outcome = "returned"
    /\ Len(FirstLongParagraph(parser.description_paragraphs)) = DescMaxLen + 1
    /\ Len(parser.data.description) = DescMaxLen + 3

C10_NeverSemiHard ==
    outcome # "" =>
        LET texture == parser.data.texture
            tx == Search(TextureRe, full_text, TRUE)
            ty == Search(TypeRe, full_text, TRUE)
        IN  /\ Lower(texture) # "semi-hard"
            /\ (outcome = "returned" /\ ~tx.found /\ ty.found
                /\ Contains(Lower(ty.group), "semi-hard")) => texture = "Hard"
            /\ (tx.found /\ Contains(Lower(tx.group), "semi-hard"))
                   => texture \in {"Crumbly", "Firm", "Soft", "Hard"}

C10_Witness ==
    /\ outcome = "returned"
    /\ ~Search(TextureRe, full_text, TRUE).found
    /\ Contains(Lower(Search(TypeRe, full_text, TRUE).group), "semi-hard")
    /\ parser.data.texture = "Hard"
    /\ parser.data.aged = "Yes"

-----------------------------------------------------------------------------
(* fetch_url, scrape_cheese and main's batch loop.                         *)

max_retries == 3

SitePrefix == "https://www.cheese.com/"

\* line 239: url.startswith('https://www.cheese.com/')
IsSiteUrlNoSlash(url) == StartsWith(url, SiteOrigin)

IsSiteUrl(url) == StartsWith(url, SitePrefix)

\* line 223: wait_time = 2 ** (attempt + 1)
WaitTimeFromOne(a) == 2 ^ a

WaitTime(a) == 2 ^ (a + 1)

\* line 252: the essential fields
ValidateNameAndMilk(cheese_data) ==
    cheese_data.name # "" /\ cheese_data.milk # ""

Validate(cheese_data) ==
    cheese_data.name # "" /\ cheese_data.country # "" /\ cheese_data.milk # ""

\* What fetch_url returns: the response body (as tokenizer events; <<>> is
\* the empty body "") or None.
Content(body) == [none |-> FALSE, body |-> body]
None          == [none |-> TRUE, body |-> <<>>]

\* line 244: `not html`
NotHtml(h) == h.none \/ h.body = <<>>

MaxUrls == 2

UrlSet ==
    {"https://www.cheese.com/brie/", "https://www.cheese.com/feta/",
     "https://www.cheese.com.example.org/brie/"}

ListFacts == <<"Country of origin: France", "Made from cow's milk", "Texture: soft">>

\* The bodies a fetch may return: a complete page, pages without a name, a
\* country or a milk, the empty body, and a page whose 'Texture:' label is
\* the last text of its list.
BatchDocs ==
    { FactPage("Brie", ListFacts),
      FactPage("  ", ListFacts),
      FactPage("Feta", <<"Made from sheep's milk", "Type: soft, brined">>),
      FactPage("Gouda", <<"Country of origin: Netherlands", "Type: semi-hard">>),
      <<>>,
      FactPage("Edam", <<"Country of origin: Netherlands", "Made from cow's milk",
                         "Texture: ">>) }

\* lines 247-249: parser = CheeseParser(url); parser.feed(html);
\* parser.extract_data()
ParsedPages ==
    [u \in UrlSet, d \in BatchDocs |-> extract_data(Feed(NewParser(u), d))]

Entry(op, got, parsed, kept) ==
    [op |-> op, i |-> idx, got |-> got, parsed |-> parsed, kept |-> kept]

AttemptEntry(result, body) ==
    [kind |-> "attempt", result |-> result, body |-> body, secs |-> 0]
SleepEntry(secs) ==
    [kind |-> "sleep", result |-> "", body |-> <<>>, secs |-> secs]

BatchInit ==
    /\ urls \in UNION {[1..n -> UrlSet] : n \in 1..MaxUrls}
    /\ idx = 0
    /\ pc = "loop"
    /\ cheeses = <<>>
    /\ attempt = 0
    /\ tries = <<>>
    /\ html = None
    /\ log = <<>>
    /\ parser = NewParser("")
    /\ events = <<>>
    /\ outcome = ""

\* line 323: the next address of the loop
LoopNext ==
    /\ pc = "loop" /\ idx < Len(urls)
    /\ idx' = idx + 1
    /\ pc' = "scrape"
    /\ UNCHANGED <<urls, cheeses, attempt, tries, html, log, parserVars>>

\* lines 327-337: main takes what scrape_cheese returned (`has` is FALSE for
\* None), then sleeps unless this was the last address
Collect(has, cheese, got, parsed) ==
    LET keep == has /\ cheese.name # ""
    IN  /\ cheeses' = IF keep THEN Append(cheeses, cheese) ELSE cheeses
        /\ log' = Append(log, Entry("result", got, parsed, keep))
        /\ pc' = IF idx < Len(urls) THEN "delay" ELSE "loop"

\* lines 239-241: an address of another site
ScrapeSkip ==
    /\ pc = "scrape" /\ ~IsSiteUrl(urls[idx])
    /\ Collect(FALSE, NewParser("").data, None, FALSE)
    /\ UNCHANGED <<urls, idx, attempt, tries, html, parserVars>>

\* line 243 and line 215: fetch_url is entered
FetchBegin ==
    /\ pc = "scrape" /\ IsSiteUrl(urls[idx])
    /\ attempt' = 0
    /\ tries' = <<>>
    /\ log' = Append(log, Entry("fetch", None, FALSE, FALSE))
    /\ pc' = "attempt"
    /\ UNCHANGED <<urls, idx, cheeses, html, parserVars>>

\* lines 217-219: the attempt succeeds
FetchOk ==
    /\ pc = "attempt"
    /\ \E d \in BatchDocs :
          /\ html' = Content(d)
          /\ tries' = Append(tries, AttemptEntry("ok", d))
    /\ pc' = "fetched"
    /\ UNCHANGED <<urls, idx, cheeses, attempt, log, parserVars>>

\* lines 220-226: URLError or HTTPError before the last attempt
FetchRetry ==
    /\ pc = "attempt" /\ attempt < max_retries - 1
    /\ tries' = Append(tries, AttemptEntry("URLError", <<>>))
    /\ pc' = "backoff"
    /\ UNCHANGED <<urls, idx, cheeses, attempt, html, log, parserVars>>

\* line 226 and line 215: time.sleep(wait_time), then the next attempt
Backoff ==
    /\ pc = "backoff"
    /\ tries' = Append(tries, SleepEntry(WaitTime(attempt)))
    /\ attempt' = attempt + 1
    /\ pc' = "attempt"
    /\ UNCHANGED <<urls, idx, cheeses, html, log, parserVars>>

\* lines 227-229: URLError or HTTPError on the last attempt
FetchGiveUp ==
    /\ pc = "attempt" /\ ~(attempt < max_retries - 1)
    /\ tries' = Append(tries, AttemptEntry("URLError", <<>>))
    /\ html' = None
    /\ pc' = "fetched"
    /\ UNCHANGED <<urls, idx, cheeses, attempt, log, parserVars>>

\* lines 230-232: any other Exception
FetchUnexpected ==
    /\ pc = "attempt"
    /\ tries' = Append(tries, AttemptEntry("Exception", <<>>))
    /\ html' = None
    /\ pc' = "fetched"
    /\ UNCHANGED <<urls, idx, cheeses, attempt, log, parserVars>>

\* lines 244-245
ScrapeNoContent ==
    /\ pc = "fetched" /\ NotHtml(html)
    /\ Collect(FALSE, NewParser("").data, html, FALSE)
    /\ UNCHANGED <<urls, idx, attempt, tries, html, parserVars>>

\* lines 247-255: the page is parsed and the record validated
ScrapeParse ==
    /\ pc = "fetched" /\ ~NotHtml(html)
    /\ \E r \in {ParsedPages[urls[idx], html.body]} :
           /\ r.raised = ""
           /\ Collect(Validate(r.data), r.data, html, TRUE)
    /\ UNCHANGED <<urls, idx, attempt, tries, html, parserVars>>

\* line 249 raises: nothing in scrape_cheese or main catches it
ScrapeRaises ==
    /\ pc = "fetched" /\ ~NotHtml(html)
    /\ ParsedPages[urls[idx], html.body].raised # ""
    /\ log' = Append(log, Entry("raised", html, TRUE, FALSE))
    /\ pc' = "crashed"
    /\ UNCHANGED <<urls, idx, cheeses, attempt, tries, html, parserVars>>

\* lines 335-337: time.sleep(delay), delay drawn from [min_delay, max_delay]
Delay ==
    /\ pc = "delay"
    /\ log' = Append(log, Entry("delay", None, FALSE, FALSE))
    /\ pc' = "loop"
    /\ UNCHANGED <<urls, idx, cheeses, attempt, tries, html, parserVars>>

\* lines 340-347: the loop is over, the list is written
Output ==
    /\ pc = "loop" /\ idx = Len(urls)
    /\ pc' = "done"
    /\ UNCHANGED <<urls, idx, cheeses, attempt, tries, html, log, parserVars>>

BatchNext ==
    \/ LoopNext \/ ScrapeSkip \/ FetchBegin
    \/ FetchOk \/ FetchRetry \/ Backoff \/ FetchGiveUp \/ FetchUnexpected
    \/ ScrapeNoContent \/ ScrapeParse \/ ScrapeRaises
    \/ Delay \/ Output

SpecBatch == BatchInit /\ [][BatchNext]_vars

-----------------------------------------------------------------------------
(* Properties of the batch loop, read off `log` (what main did, address by *)
(* address) and `tries` (what the current fetch_url call did).             *)

IsPrefixed(url) == StartsWith(url, "https://www.cheese.com/")

Results == SelectSeq(log, LAMBDA e : e.op = "result")

\* the record that parsing the body of a "result" entry yields
RecordOf(e) == ParsedPages[urls[e.i], e.got.body].data

Complete(d) == d.name # "" /\ d.country # "" /\ d.milk # ""

\* a "result" entry whose address was fetched with content and parsed to a
\* record with a name, a country and a milk
Accepted(e) == ~e.got.none /\ Complete(RecordOf(e))

RECURSIVE RecordsOf(_)
RecordsOf(es) ==
    IF es = <<>> THEN <<>> ELSE <<RecordOf(Head(es))>> \o RecordsOf(Tail(es))

\* C2: once main's loop is over, the output list is exactly the records of
\* the addresses whose fetch returned content and whose name, country and
\* milk are all non-empty, in input order.
C2_OutputIsTheValidRecords ==
    pc = "done" =>
        /\ cheeses = RecordsOf(SelectSeq(Results, Accepted))
        /\ \A n \in DOMAIN cheeses : Complete(cheeses[n])

C2_Witness ==
    /\ pc = "done"
    /\ Len(cheeses) = 1
    /\ \E k \in DOMAIN Results :
           /\ ~Results[k].got.none /\ Results[k].got.body # <<>>
           /\ RecordOf(Results[k]).name # ""
           /\ RecordOf(Results[k]).country = ""
    /\ \E k \in DOMAIN Results : Accepted(Results[k])

\* C3: no document makes the batch stop: extract_data never raises out of
\* scrape_cheese and main.
C3_NoDocumentAbortsTheBatch == pc # "crashed"

FetchesBefore(k) == {j \in 1..(k - 1) : log[j].op = "fetch"}
FetchesAfter(k)  == {j \in (k + 1)..Len(log) : log[j].op = "fetch"}

\* C4: a delay happens only after some fetch and, once the loop is over,
\* every delay has a fetch after it.
C4_DelayOnlyBetweenFetches ==
    \A k \in DOMAIN log :
        log[k].op = "delay" =>
            /\ FetchesBefore(k) # {}
            /\ pc = "done" => FetchesAfter(k) # {}

IsAttempt(n) == n % 2 = 1

C6_OtherSitesNeverFetched ==
    /\ \A k \in DOMAIN log :
           ~IsPrefixed(urls[log[k].i]) =>
               /\ log[k].op \in {"result", "delay"}
               /\ log[k].got = None /\ ~log[k].parsed /\ ~log[k].kept
    /\ pc \in {"attempt", "backoff", "fetched", "crashed"} => IsPrefixed(urls[idx])
    /\ pc = "done" => Len(Results) = Len(urls)

C6_Witness ==
    /\ pc = "done"
    /\ \E k \in DOMAIN log :
           /\ log[k].op = "result" /\ ~IsPrefixed(urls[log[k].i])
           /\ \E j \in (k + 1)..Len(log) : log[j].op = "fetch"

====
